---- MODULE Spec2Model ----
(***************************************************************************)
(* uniprot-fasta-header: the two header assemblers (uniprotkb and          *)
(* uniprotkb_iso), the field parsers of parser.rs they are built from, and *)
(* the error model of error.rs.                                            *)
(*                                                                         *)
(* A byte is a one-character string; the token "xFF" stands for the byte   *)
(* 0xFF, which is not valid UTF-8, and "uFFFD" for the replacement         *)
(* character a lossy decoding puts in its place.  A byte slice is a        *)
(* sequence of bytes.                                                      *)
(***************************************************************************)
EXTENDS Naturals, Sequences, FiniteSets

(* ------------------------------------------------------------------ *)
(* Bytes and byte classes                                              *)
(* ------------------------------------------------------------------ *)

Digits == {"0", "1", "2", "3", "4", "5", "6", "7", "8", "9"}

Upper ==
    {"A", "B", "C", "D", "E", "F", "G", "H", "I", "J", "K", "L", "M",
     "N", "O", "P", "Q", "R", "S", "T", "U", "V", "W", "X", "Y", "Z"}

Lower ==
    {"a", "b", "c", "d", "e", "f", "g", "h", "i", "j", "k", "l", "m",
     "n", "o", "p", "q", "r", "s", "t", "u", "v", "w", "x", "y", "z"}

\* nom::character::is_alphanumeric: the ASCII letters and digits
\* (nom::character::is_digit is membership in Digits)
AlphaNumeric == Upper \cup Lower \cup Digits

\* the predicate of space: c == b' ' || c == b'\t'
SpaceOrTab == {" ", "\t"}

\* the predicate of the second alternative of gn
GeneBytes == AlphaNumeric \cup {"-", "_", "."}

\* what str::trim removes, among the bytes of the model
WhiteSpace == {" ", "\t", "\n", "\r"}

(* ------------------------------------------------------------------ *)
(* Slices                                                              *)
(* ------------------------------------------------------------------ *)

Take(s, n) == SubSeq(s, 1, n)

Drop(s, n) == SubSeq(s, n + 1, Len(s))

StartsWith(s, t) == Len(s) >= Len(t) /\ Take(s, Len(t)) = t

IsSuffixOf(t, s) == Len(t) <= Len(s) /\ Drop(s, Len(s) - Len(t)) = t

\* number of leading bytes of s that satisfy the class P (a set of bytes):
\* the index input.position(|c| !cond(c)) finds, or the length when none
RunLen(s, P) ==
    IF \E i \in 1..Len(s) : s[i] \notin P
    THEN (CHOOSE i \in 1..Len(s) :
              s[i] \notin P /\ \A j \in 1..(i - 1) : s[j] \in P) - 1
    ELSE Len(s)

\* input.find_substring(t): the 0-based index of the first occurrence, or -1
\* (None) written as Len(s) + 1
FindSubstring(s, t) ==
    IF \E i \in 0..(Len(s) - Len(t)) : SubSeq(s, i + 1, i + Len(t)) = t
    THEN CHOOSE i \in 0..(Len(s) - Len(t)) :
             /\ SubSeq(s, i + 1, i + Len(t)) = t
             /\ \A j \in 0..(i - 1) : SubSeq(s, j + 1, j + Len(t)) # t
    ELSE Len(s) + 1

(* ------------------------------------------------------------------ *)
(* Decoding: String::from_utf8_lossy and str::trim                     *)
(* ------------------------------------------------------------------ *)

from_utf8_lossy(s) == [i \in 1..Len(s) |-> IF s[i] = "xFF" THEN "uFFFD" ELSE s[i]]

trim(s) ==
    IF \A i \in 1..Len(s) : s[i] \in WhiteSpace
    THEN << >>
    ELSE LET a == CHOOSE i \in 1..Len(s) :
                      s[i] \notin WhiteSpace /\ \A j \in 1..(i - 1) : s[j] \in WhiteSpace
             b == CHOOSE i \in 1..Len(s) :
                      s[i] \notin WhiteSpace /\ \A j \in (i + 1)..Len(s) : s[j] \in WhiteSpace
         IN  SubSeq(s, a, b)

(* ------------------------------------------------------------------ *)
(* nom results.  res is "Ok", "Error" (a recoverable error carrying    *)
(* the input it was raised on and its ErrorKind), "Incomplete", or     *)
(* "Panic" (the thread unwinds: unreachable!()).                       *)
(* ------------------------------------------------------------------ *)

NoVal == << >>

Ok(rest_, val) == [res |-> "Ok", rest |-> rest_, val |-> val, kind |-> "none"]

Error(input_, kind_) == [res |-> "Error", rest |-> input_, val |-> NoVal, kind |-> kind_]

Incomplete(input_) == [res |-> "Incomplete", rest |-> input_, val |-> NoVal, kind |-> "none"]

Panic(input_) == [res |-> "Panic", rest |-> input_, val |-> NoVal, kind |-> "none"]

(* ------------------------------------------------------------------ *)
(* Token primitives (nom::bytes::complete)                             *)
(* ------------------------------------------------------------------ *)

\* a variant of tag that asks for more input when the input is a proper
\* prefix of the literal (nom::bytes::streaming)
tag_streaming(t, input_) ==
    IF StartsWith(input_, t) THEN Ok(Drop(input_, Len(t)), t)
    ELSE IF Len(input_) < Len(t) /\ Take(t, Len(input_)) = input_ THEN Incomplete(input_)
    ELSE Error(input_, "Tag")

tag(t, input_) ==
    IF StartsWith(input_, t) THEN Ok(Drop(input_, Len(t)), t)
    ELSE Error(input_, "Tag")

take_while1(P, input_) ==
    LET n == RunLen(input_, P)
    IN  IF n = 0 THEN Error(input_, "TakeWhile1")
        ELSE Ok(Drop(input_, n), Take(input_, n))

take_while_m_n(m, n, P, input_) ==
    LET len == Len(input_)
        idx == RunLen(input_, P)
    IN  IF idx < len
        THEN \* Some(idx): a byte that fails the predicate was found
             IF idx >= m
             THEN IF idx <= n THEN Ok(Drop(input_, idx), Take(input_, idx))
                  ELSE Ok(Drop(input_, n), Take(input_, n))
             ELSE Error(input_, "TakeWhileMN")
        ELSE \* None: every byte satisfies the predicate
             IF len >= n THEN Ok(Drop(input_, n), Take(input_, n))
             ELSE IF len >= m /\ len <= n THEN Ok(Drop(input_, len), input_)
             ELSE Error(input_, "TakeWhileMN")

take_until(t, input_) ==
    LET i == FindSubstring(input_, t)
    IN  IF i > Len(input_) THEN Error(input_, "TakeUntil")
        ELSE Ok(Drop(input_, i), Take(input_, i))

take(n, input_) ==
    IF Len(input_) < n THEN Error(input_, "Eof")
    ELSE Ok(Drop(input_, n), Take(input_, n))

(* ------------------------------------------------------------------ *)
(* Combinators (nom::sequence, nom::branch, nom::combinator), applied  *)
(* to results                                                          *)
(* ------------------------------------------------------------------ *)

\* preceded(first, second): second runs on what first leaves
Then(r1, r2) == IF r1.res = "Ok" THEN r2 ELSE r1

\* alt((a, b)): b runs on the same input when a ends in Error; when both do,
\* the error kept is b's (ParseError::or and ::append of (I, ErrorKind))
Alt(ra, rb) == IF ra.res = "Error" THEN rb ELSE ra

\* opt(f): an Error of f becomes None and consumes nothing
None == [some |-> FALSE, v |-> << >>]

Some(v_) == [some |-> TRUE, v |-> v_]

Opt(r, input_) ==
    IF r.res = "Ok" THEN Ok(r.rest, Some(r.val))
    ELSE IF r.res = "Error" THEN Ok(input_, None)
    ELSE r

(* ------------------------------------------------------------------ *)
(* Field parsers (parser.rs)                                           *)
(* ------------------------------------------------------------------ *)

pipe(input_) == tag(<<"|">>, input_)

chevron(input_) == tag(<<">">>, input_)

space(input_) == take_while1(SpaceOrTab, input_)

\* a db whose two tags are mapped the wrong way round
db_swapped(input_) ==
    LET out_ == Alt(tag(<<"s", "p">>, input_), tag(<<"t", "r">>, input_))
    IN  IF out_.res = "Ok"
        THEN IF out_.val = <<"s", "p">> THEN Ok(out_.rest, "TrEMBL")
             ELSE Ok(out_.rest, "SwissProt")
        ELSE out_

db(input_) ==
    LET out_ == Alt(tag(<<"s", "p">>, input_), tag(<<"t", "r">>, input_))
    IN  IF out_.res = "Ok"
        THEN IF out_.val = <<"s", "p">> THEN Ok(out_.rest, "SwissProt")
             ELSE IF out_.val = <<"t", "r">> THEN Ok(out_.rest, "TrEMBL")
             ELSE Panic(input_)
        ELSE out_

\* The accession pattern
\*   [OPQ][0-9][A-Z0-9]{3}[0-9]|[A-NR-Z][0-9]([A-Z][A-Z0-9]{2}[0-9]){1,2}
\* matched at the 1-based position i of s: the length of the match the regex
\* engine prefers there (first alternative first, the repetition greedy), or 0.
UpperOrDigit == Upper \cup Digits

GroupAt(s, j) ==
    /\ j + 3 <= Len(s)
    /\ s[j] \in Upper
    /\ s[j + 1] \in UpperOrDigit
    /\ s[j + 2] \in UpperOrDigit
    /\ s[j + 3] \in Digits

ReMatchLenAt(s, i) ==
    IF /\ i + 5 <= Len(s)
       /\ s[i] \in {"O", "P", "Q"}
       /\ s[i + 1] \in Digits
       /\ \A k \in 2..4 : s[i + k] \in UpperOrDigit
       /\ s[i + 5] \in Digits
    THEN 6
    ELSE IF /\ i + 1 <= Len(s)
            /\ s[i] \in Upper \ {"O", "P", "Q"}
            /\ s[i + 1] \in Digits
            /\ GroupAt(s, i + 2)
         THEN IF GroupAt(s, i + 6) THEN 10 ELSE 6
         ELSE 0

\* re.captures(input): the leftmost position with a match (0 when none)
ReFind(s) ==
    IF \E i \in 1..Len(s) : ReMatchLenAt(s, i) > 0
    THEN CHOOSE i \in 1..Len(s) :
             ReMatchLenAt(s, i) > 0 /\ \A j \in 1..(i - 1) : ReMatchLenAt(s, j) = 0
    ELSE 0

\* a unique_id whose pattern must match at the start of the input
unique_id_anchored(input_) ==
    IF ReMatchLenAt(input_, 1) > 0
    THEN Ok(Drop(input_, ReMatchLenAt(input_, 1)), Take(input_, ReMatchLenAt(input_, 1)))
    ELSE Error(input_, "RegexpCapture")

unique_id(input_) ==
    LET start == ReFind(input_)
    IN  IF start > 0
        THEN LET end == start + ReMatchLenAt(input_, start) - 1  \* m.end(), 1-based inclusive
                 v == SubSeq(input_, start, end)
                 offset == end
             IN  Ok(Drop(input_, offset), v)
        ELSE Error(input_, "RegexpCapture")

\* an entry_name whose mnemonic protein code may be up to 13 bytes
entry_name_long(input_) ==
    LET a == take_while_m_n(2, 13, AlphaNumeric, input_)
        b == Then(a, tag(<<"_">>, a.rest))
        c == Then(b, take_while_m_n(2, 5, AlphaNumeric, b.rest))
    IN  IF c.res = "Ok" THEN Ok(c.rest, a.val \o b.val \o c.val) ELSE c

entry_name(input_) ==
    LET a == take_while_m_n(2, 12, AlphaNumeric, input_)
        b == Then(a, tag(<<"_">>, a.rest))
        c == Then(b, take_while_m_n(2, 5, AlphaNumeric, b.rest))
    IN  IF c.res = "Ok" THEN Ok(c.rest, a.val \o b.val \o c.val) ELSE c

until_os(input_) == take_until(<<" ", "O", "S", "=">>, input_)

os_until_ox(input_) ==
    LET t == tag(<<"O", "S", "=">>, input_)
    IN  Then(t, take_until(<<" ", "O", "X", "=">>, t.rest))

\* an organism_id that takes up to 8 digits
organism_id_8(input_) ==
    LET t == tag(<<"O", "X", "=">>, input_)
    IN  Then(t, take_while_m_n(1, 8, Digits, t.rest))

organism_id(input_) ==
    LET t == tag(<<"O", "X", "=">>, input_)
    IN  Then(t, take_while_m_n(1, 7, Digits, t.rest))

gn(input_) ==
    LET t == tag(<<"G", "N", "=">>, input_)
    IN  Then(t, Alt(take_until(<<" ", "P", "E", "=">>, t.rest),
                    take_while1(GeneBytes, t.rest)))

\* an optional_gene_name that demands the gene name: pair(gn, opt(space))
required_gene_name(input_) ==
    LET g == gn(input_)
        s == Opt(space(g.rest), g.rest)
    IN  IF g.res # "Ok" THEN g
        ELSE Ok(s.rest, [gene |-> Some(g.val), sp |-> s.val])

optional_gene_name(input_) ==
    LET g == Opt(gn(input_), input_)
        s == Opt(space(g.rest), g.rest)
    IN  IF g.res # "Ok" THEN g
        ELSE IF s.res # "Ok" THEN s
        ELSE Ok(s.rest, [gene |-> g.val, sp |-> s.val])

evidence(input_) ==
    LET t == tag(<<"P", "E", "=">>, input_)
        out_ == Then(t, take_while1(Digits, t.rest))
    IN  IF out_.res = "Ok"
        THEN CASE out_.val = <<"1">> -> Ok(out_.rest, "ExperimentalEvidenceProtein")
               [] out_.val = <<"2">> -> Ok(out_.rest, "ExperimentalEvidenceTranscript")
               [] out_.val = <<"3">> -> Ok(out_.rest, "InferredHomology")
               [] out_.val = <<"4">> -> Ok(out_.rest, "Predicted")
               [] out_.val = <<"5">> -> Ok(out_.rest, "Uncertain")
               [] OTHER -> Panic(input_)   \* unreachable!()
        ELSE out_

version(input_) ==
    LET t == tag(<<"S", "V", "=">>, input_)
    IN  Then(t, take(1, t.rest))

\* an iso_id whose isoform number may be empty
iso_id_optional_digits(input_) ==
    LET a == unique_id(input_)
        b == Then(a, tag(<<"-">>, a.rest))
        n == RunLen(b.rest, Digits)
    IN  IF b.res = "Ok" THEN Ok(Drop(b.rest, n), [id |-> a.val, iso |-> Take(b.rest, n)])
        ELSE b

iso_id(input_) ==
    LET a == unique_id(input_)
        b == Then(a, tag(<<"-">>, a.rest))
        c == Then(b, take_while1(Digits, b.rest))
    IN  IF c.res = "Ok" THEN Ok(c.rest, [id |-> a.val, iso |-> c.val]) ELSE c

(* ------------------------------------------------------------------ *)
(* The assemblers as functions of their argument                       *)
(* ------------------------------------------------------------------ *)

\* String::from_utf8(entry).unwrap(): defined on valid UTF-8 only
IsUtf8(s) == \A i \in 1..Len(s) : s[i] # "xFF"

\* Some(g) => Some(String::from_utf8_lossy(g).to_string()), None => None
GeneName(gene) == IF gene.some THEN Some(from_utf8_lossy(gene.v)) ELSE None

\* the UniProtKB built at the end of parse_uniprotkb
UniProtKB(f) ==
    [database |-> f.database,
     identifier |-> trim(from_utf8_lossy(f.id)),
     entry_name |-> f.entry,
     protein_name |-> trim(from_utf8_lossy(f.protein)),
     organism_name |-> trim(from_utf8_lossy(f.organism)),
     organism_identifier |-> trim(from_utf8_lossy(f.organism_id)),
     gene_name |-> GeneName(f.gene),
     protein_existence |-> f.evidence,
     sequence_version |-> trim(from_utf8_lossy(f.version))]

\* the UniProtKBIsoform built at the end of parse_uniprotkb_iso
UniProtKBIsoform(f) ==
    [database |-> f.database,
     identifier |-> from_utf8_lossy(f.id),
     isoform |-> from_utf8_lossy(f.iso),
     entry_name |-> f.entry,
     protein_name |-> trim(from_utf8_lossy(f.protein)),
     organism_name |-> trim(from_utf8_lossy(f.organism)),
     organism_identifier |-> trim(from_utf8_lossy(f.organism_id)),
     gene_name |-> GeneName(f.gene)]

\* the bindings of a parse function before its first statement
NoFields ==
    [database |-> "none", id |-> << >>, iso |-> << >>, entry |-> << >>,
     protein |-> << >>, organism |-> << >>, organism_id |-> << >>,
     gene |-> None, evidence |-> "none", version |-> << >>]

\* the statements of parse_uniprotkb and of parse_uniprotkb_iso, in order
Steps(f) ==
    <<"chevron", "db", "pipe1", "id", "pipe2", "entry_name", "space1", "until_os",
      "space2", "os_until_ox", "space3", "organism_id", "space4",
      "optional_gene_name">>
    \o (IF f = "uniprotkb" THEN <<"evidence", "space5", "version">> ELSE << >>)
    \o <<"build">>

\* the sub-parser the statement n applies to the input
SubParser(f, n, input_) ==
    CASE n = "chevron" -> chevron(input_)
      [] n = "db" -> db(input_)
      [] n \in {"pipe1", "pipe2"} -> pipe(input_)
      [] n = "id" -> IF f = "uniprotkb" THEN unique_id(input_) ELSE iso_id(input_)
      [] n = "entry_name" -> entry_name(input_)
      [] n \in {"space1", "space2", "space3", "space4", "space5"} -> space(input_)
      [] n = "until_os" -> until_os(input_)
      [] n = "os_until_ox" -> os_until_ox(input_)
      [] n = "organism_id" -> organism_id(input_)
      [] n = "optional_gene_name" -> optional_gene_name(input_)
      [] n = "evidence" -> evidence(input_)
      [] n = "version" -> version(input_)

\* the bindings after the statement n has bound the value val
Bound(f, n, b, val) ==
    CASE n = "db" -> [b EXCEPT !.database = val]
      [] n = "id" -> IF f = "uniprotkb" THEN [b EXCEPT !.id = val]
                     ELSE [b EXCEPT !.id = val.id, !.iso = val.iso]
      [] n = "entry_name" -> [b EXCEPT !.entry = val]
      [] n = "until_os" -> [b EXCEPT !.protein = val]
      [] n = "os_until_ox" -> [b EXCEPT !.organism = val]
      [] n = "organism_id" -> [b EXCEPT !.organism_id = val]
      [] n = "optional_gene_name" -> [b EXCEPT !.gene = val.gene]
      [] n = "evidence" -> [b EXCEPT !.evidence = val]
      [] n = "version" -> [b EXCEPT !.version = val]
      [] OTHER -> b

\* the statements of the parse function of f from the i-th on, run on the
\* input with the bindings b: `let (input, x) = p(input)?;` returns the Err of
\* p, and the last statement returns Ok((input, record))
RECURSIVE Statements(_, _, _, _)
Statements(f, i, input_, b) ==
    IF Steps(f)[i] = "build"
    THEN IF ~IsUtf8(b.entry) THEN Panic(input_)
         ELSE Ok(input_, IF f = "uniprotkb" THEN UniProtKB(b) ELSE UniProtKBIsoform(b))
    ELSE CHOOSE v \in {IF r.res = "Ok"
                       THEN Statements(f, i + 1, r.rest, Bound(f, Steps(f)[i], b, r.val))
                       ELSE r : r \in {SubParser(f, Steps(f)[i], input_)}} : TRUE

parse_uniprotkb(input_) == Statements("uniprotkb", 1, input_, NoFields)

parse_uniprotkb_iso(input_) == Statements("uniprotkb_iso", 1, input_, NoFields)

\* ErrorKind::description, for the kinds the parsers raise
description(kind) ==
    CASE kind = "TakeUntil" -> "Take until"
      [] kind = "Eof" -> "End of file"
      [] OTHER -> kind

\* a from_error_kind that stores the name of the kind, not its description
from_error_kind_name(input_, kind) ==
    [tag |-> "ParsingError", value |-> << >>,
     remaining |-> from_utf8_lossy(input_), kind |-> kind]

\* UniProtHeaderError::from_error_kind
from_error_kind(input_, kind) ==
    [tag |-> "ParsingError", value |-> << >>,
     remaining |-> from_utf8_lossy(input_), kind |-> description(kind)]

\* the match of uniprotkb / uniprotkb_iso on the IResult r of the parse
\* function; a panic unwinds through the caller, which returns nothing
Returned(r) ==
    CASE r.res = "Ok" ->
             [tag |-> "Ok", value |-> r.val, remaining |-> << >>, kind |-> "none"]
      [] r.res = "Incomplete" ->
             [tag |-> "Incomplete", value |-> << >>, remaining |-> << >>, kind |-> "none"]
      [] r.res = "Panic" ->
             [tag |-> "panic", value |-> << >>, remaining |-> << >>, kind |-> "none"]
      [] OTHER -> from_error_kind(r.rest, r.kind)

uniprotkb(string_) == Returned(parse_uniprotkb(string_))

uniprotkb_iso(string_) == Returned(parse_uniprotkb_iso(string_))

(* ------------------------------------------------------------------ *)
(* Inputs.  A header is described by its parts; the input of a call is *)
(* the rendering of a description, a rendering followed by trailing    *)
(* content, or a proper prefix of one.  The descriptions differ from a *)
(* well-formed header of the tests in at most MaxDeviations parts.     *)
(* ------------------------------------------------------------------ *)

MaxDeviations == 2

\* truncated inputs are prefixes of descriptions with at most this many deviations
MaxCutDeviations == 0

Absent == [has |-> FALSE, val |-> << >>]

Present(v_) == [has |-> TRUE, val |-> v_]

BaseHeader(fn) ==
    [db |-> <<"s", "p">>,
     junk |-> << >>,
     acc |-> <<"P", "1", "2", "3", "4", "5">>,
     iso |-> IF fn = "uniprotkb_iso" THEN <<"-", "2">> ELSE << >>,
     entry |-> <<"A", "B", "_", "C", "D">>,
     sep1 |-> <<" ">>,
     protein |-> <<"x">>,
     sep2 |-> <<" ">>,
     organism |-> <<"y">>,
     sep3 |-> <<" ">>,
     taxid |-> <<"9">>,
     sep4 |-> <<" ">>,
     gene |-> IF fn = "uniprotkb_iso" THEN Present(<<"g">>) ELSE Absent,
     sep5 |-> IF fn = "uniprotkb_iso" THEN << >> ELSE <<" ">>,
     pe |-> IF fn = "uniprotkb_iso" THEN Absent ELSE Present(<<"3">>),
     sep6 |-> <<" ">>,
     sv |-> <<"1">>,
     trail |-> << >>]

Separators == {<<" ", " ">>, <<"\t">>, <<"\t", " ">>}

Alternatives ==
    [db |-> {<<"t", "r">>, <<"x", "x">>},
     junk |-> {<<"x">>, <<"!">>},
     acc |-> {<<"A", "2", "B", "C", "1", "9">>,
              <<"A", "0", "A", "0", "2", "3", "G", "P", "I", "8">>,
              <<"P", "1", "2", "3", "4">>,
              << >>},
     iso |-> {<< >>, <<"-", "2">>, <<"-", "1", "2">>, <<"-">>, <<"2">>},
     entry |-> {<<"A", "_", "C", "D">>,
                <<"A", "B", "C", "D", "E", "F", "G", "H", "I", "J", "K", "L", "_", "C", "D">>,
                <<"A", "B", "C", "D", "E", "F", "G", "H", "I", "J", "K", "L", "M", "_", "C", "D">>,
                <<"A", "B", "_", "C">>,
                <<"A", "B", "-", "C", "D">>,
                <<"A", "B", "C", "D">>,
                <<"a", "1", "_", "C", "D", "E", "F", "G">>,
                <<"A", "B", "_", "C", "D", "E", "F", "G", "H">>,
                <<"Q", "3", "S", "A", "2", "3", "_", "9", "H", "I", "V", "1">>},
     sep1 |-> Separators,
     protein |-> {<<"a", " ", "b">>, << >>, <<"xFF">>, <<"O", "S", "=", "x">>,
                  <<"P", "1", "2", "3", "4", "5", "-", "2", "|", "A", "B", "_", "C", "D", " ", "z">>},
     sep2 |-> Separators,
     organism |-> {<<"a", " ", "b">>, << >>},
     sep3 |-> Separators,
     taxid |-> {<<"1", "2", "3", "4", "5", "6", "7">>,
                <<"1", "2", "3", "4", "5", "6", "7", "8">>,
                << >>},
     sep4 |-> Separators \cup {<< >>, <<" ">>},
     gene |-> {Absent, Present(<<"g">>), Present(<<"a", " ", "b">>),
               Present(<<">">>), Present(<< >>)},
     sep5 |-> Separators \cup {<< >>, <<" ">>},
     pe |-> {Absent, Present(<<"1">>), Present(<<"2">>), Present(<<"4">>),
             Present(<<"5">>), Present(<<"0">>), Present(<<"6">>),
             Present(<<"1", "2">>)},
     sep6 |-> Separators,
     sv |-> {<<"2">>, <<"x">>, <<" ">>, << >>},
     trail |-> {<<" ", "z">>, <<"z">>}]

\* a deviation: a part and another value for it
Choices == UNION {{<<f, v>> : v \in Alternatives[f]} : f \in DOMAIN Alternatives}

RECURSIVE Deviations(_, _)
Deviations(k, base) ==
    IF k = 0 THEN {base}
    ELSE LET D == Deviations(k - 1, base)
         IN  D \cup {[h EXCEPT ![c[1]] = c[2]] : h \in D, c \in Choices}

\* the header grammar of the crate documentation, written out
Render(h) ==
    <<">">> \o h.db \o <<"|">> \o h.junk \o h.acc \o h.iso \o <<"|">> \o h.entry
      \o h.sep1 \o h.protein
      \o h.sep2 \o <<"O", "S", "=">> \o h.organism
      \o h.sep3 \o <<"O", "X", "=">> \o h.taxid
      \o h.sep4
      \o (IF h.gene.has THEN <<"G", "N", "=">> \o h.gene.val \o h.sep5 ELSE << >>)
      \o (IF h.pe.has
          THEN <<"P", "E", "=">> \o h.pe.val \o h.sep6 \o <<"S", "V", "=">> \o h.sv
          ELSE << >>)
      \o h.trail

\* content a caller may leave after a header
Trailing == {<<" ", "P", "E", "=">>}

\* the descriptions of the set D that the entry point f parses to the end of
\* the input, followed by trailing content
WithTrailing(f, D) ==
    {[h EXCEPT !.trail = t] :
        h \in {d \in D : /\ d.trail = << >>
                         /\ IF f = "uniprotkb"
                            THEN parse_uniprotkb(Render(d)).res = "Ok"
                            ELSE parse_uniprotkb_iso(Render(d)).res = "Ok"},
        t \in Trailing}

\* the descriptions of the headers given to the entry point f whole
Headers(f) == Deviations(MaxDeviations, BaseHeader(f))

\* and of those given to it cut short
CutHeaders(f) == Deviations(MaxCutDeviations, BaseHeader(f))

(* ------------------------------------------------------------------ *)
(* The assemblers as a state machine: one call of uniprotkb or         *)
(* uniprotkb_iso on one input, one step per statement.                 *)
(* ------------------------------------------------------------------ *)

VARIABLES
    fn,      \* the entry point called: "uniprotkb" or "uniprotkb_iso"
    hdr,     \* the description of the header the input was rendered from
    string,  \* the argument of the call
    input,   \* the current binding of `input`: what is left to parse
    prev,    \* the binding of `input` the last step ran on
    pc,      \* the statement to run next
    last,    \* the sub-parser that ran last
    fields,  \* the slices bound so far
    nom,     \* the IResult of the last step: res, and for an Err its kind and input
    parsed,  \* the record built by parse_uniprotkb / parse_uniprotkb_iso
    out,     \* what the call returned
    RE,      \* the static RE of unique_id: the cell that holds the compiled pattern
    threads  \* the calls other threads are making (none in a single call)

vars == <<fn, hdr, string, input, prev, pc, last, fields, nom, parsed, out, RE, threads>>

\* the pattern unique_id compiles
AccessionPattern == "[OPQ][0-9][A-Z0-9]{3}[0-9]|[A-NR-Z][0-9]([A-Z][A-Z0-9]{2}[0-9]){1,2}"

\* static RE: OnceCell<Regex> = OnceCell::new(); runs counts the runs of the
\* closure that compiles the pattern
EmptyCell == [state |-> "incomplete", value |-> "none", runs |-> 0]

\* the cell after the closure of get_or_init has run
Compiled(cell) == [state |-> "complete", value |-> AccessionPattern, runs |-> cell.runs + 1]

\* RE.get_or_init(..) with no other thread in it: the cell it leaves
Initialized(cell) == IF cell.state = "complete" THEN cell ELSE Compiled(cell)

NoOut == [tag |-> "none", value |-> << >>, remaining |-> << >>, kind |-> "none"]

\* the entry point f is called on the argument s, rendered from h
Called(f, h, s) ==
    /\ fn = f
    /\ hdr = h
    /\ string = s
    /\ input = s
    /\ prev = s
    /\ pc = "chevron"
    /\ last = "none"
    /\ fields = NoFields
    /\ nom = [res |-> "Ok", kind |-> "none", rest |-> << >>]
    /\ parsed = << >>
    /\ out = NoOut
    /\ RE = EmptyCell
    /\ threads = << >>

\* the argument is a header, a header followed by trailing content, or a
\* proper prefix of a header
Init ==
    \E f \in {"uniprotkb", "uniprotkb_iso"} :
        \/ \E h \in Headers(f) : Called(f, h, Render(h))
        \/ \E h \in WithTrailing(f, Headers(f)) : Called(f, h, Render(h))
        \/ \E h \in CutHeaders(f) :
               \E n \in 0..(Len(Render(h)) - 1) : Called(f, h, Take(Render(h), n))

\* `let (input, x) = p(input)?;`: on Ok rebind input and bind x; on Err return
\* it to the caller; a panic unwinds through the caller
Step(name, r, next, bound) ==
    /\ pc = name
    /\ prev' = input
    /\ last' = name
    /\ nom' = [res |-> r.res, kind |-> r.kind,
               rest |-> IF r.res = "Ok" THEN << >> ELSE r.rest]
    /\ IF r.res = "Ok"
       THEN input' = r.rest /\ fields' = bound /\ pc' = next
       ELSE /\ UNCHANGED <<input, fields>>
            /\ pc' = IF r.res = "Panic" THEN "aborted" ELSE "return"
    /\ RE' = IF name = "id" THEN Initialized(RE) ELSE RE
    /\ UNCHANGED <<fn, hdr, string, parsed, out, threads>>

Chevron == Step("chevron", chevron(input), "db", fields)

Db == Step("db", db(input), "pipe1", [fields EXCEPT !.database = db(input).val])

Pipe1 == Step("pipe1", pipe(input), "id", fields)

UniqueId ==
    /\ fn = "uniprotkb"
    /\ Step("id", unique_id(input), "pipe2", [fields EXCEPT !.id = unique_id(input).val])

IsoId ==
    /\ fn = "uniprotkb_iso"
    /\ Step("id", iso_id(input), "pipe2",
            [fields EXCEPT !.id = iso_id(input).val.id, !.iso = iso_id(input).val.iso])

Pipe2 == Step("pipe2", pipe(input), "entry_name", fields)

EntryName ==
    Step("entry_name", entry_name(input), "space1",
         [fields EXCEPT !.entry = entry_name(input).val])

Space1 == Step("space1", space(input), "until_os", fields)

UntilOs ==
    Step("until_os", until_os(input), "space2",
         [fields EXCEPT !.protein = until_os(input).val])

Space2 == Step("space2", space(input), "os_until_ox", fields)

OsUntilOx ==
    Step("os_until_ox", os_until_ox(input), "space3",
         [fields EXCEPT !.organism = os_until_ox(input).val])

Space3 == Step("space3", space(input), "organism_id", fields)

OrganismId ==
    Step("organism_id", organism_id(input), "space4",
         [fields EXCEPT !.organism_id = organism_id(input).val])

Space4 == Step("space4", space(input), "optional_gene_name", fields)

OptionalGeneName ==
    Step("optional_gene_name", optional_gene_name(input),
         IF fn = "uniprotkb" THEN "evidence" ELSE "build",
         [fields EXCEPT !.gene = optional_gene_name(input).val.gene])

Evidence ==
    Step("evidence", evidence(input), "space5",
         [fields EXCEPT !.evidence = evidence(input).val])

Space5 == Step("space5", space(input), "version", fields)

Version ==
    Step("version", version(input), "build",
         [fields EXCEPT !.version = version(input).val])

\* the last statements of the two parse functions: Ok((input, record))
Build ==
    /\ pc = "build"
    /\ IF IsUtf8(fields.entry)
       THEN /\ parsed' = IF fn = "uniprotkb" THEN UniProtKB(fields)
                         ELSE UniProtKBIsoform(fields)
            /\ pc' = "return"
            /\ nom' = nom
       ELSE /\ parsed' = parsed
            /\ pc' = "aborted"
            /\ nom' = [res |-> "Panic", kind |-> "none", rest |-> input]
    /\ UNCHANGED <<fn, hdr, string, input, prev, last, fields, out, RE, threads>>

\* uniprotkb / uniprotkb_iso: the match on the result of the parse function
Return ==
    /\ pc = "return"
    /\ out' = CASE nom.res = "Ok" ->
                     [tag |-> "Ok", value |-> parsed, remaining |-> << >>, kind |-> "none"]
                [] nom.res = "Incomplete" ->
                     [tag |-> "Incomplete", value |-> << >>, remaining |-> << >>,
                      kind |-> "none"]
                [] OTHER -> from_error_kind(nom.rest, nom.kind)
    /\ pc' = "done"
    /\ UNCHANGED <<fn, hdr, string, input, prev, last, fields, nom, parsed, RE, threads>>

Next ==
    \/ Chevron
    \/ Db
    \/ Pipe1
    \/ UniqueId
    \/ IsoId
    \/ Pipe2
    \/ EntryName
    \/ Space1
    \/ UntilOs
    \/ Space2
    \/ OsUntilOx
    \/ Space3
    \/ OrganismId
    \/ Space4
    \/ OptionalGeneName
    \/ Evidence
    \/ Space5
    \/ Version
    \/ Build
    \/ Return

Spec == Init /\ [][Next]_vars

(* ------------------------------------------------------------------ *)
(* Calls from several threads.  The static RE of unique_id is all they *)
(* share, so a call is split where it touches RE: the statements       *)
(* before unique_id, get_or_init, the closure that compiles the        *)
(* pattern, and the match with the rest of the call.                   *)
(* ------------------------------------------------------------------ *)

NThreads == 2

\* the headers the threads parse: a well-formed one, and those that differ
\* from it in the database or the accession
ThreadHeaders(f) ==
    {BaseHeader(f)}
    \cup {[BaseHeader(f) EXCEPT ![c[1]] = c[2]] : c \in {d \in Choices : d[1] \in {"db", "acc"}}}

\* chevron, db and pipe: the statements before unique_id / iso_id
BeforeId(input_) ==
    LET ch == chevron(input_)
        d == Then(ch, db(ch.rest))
    IN  Then(d, pipe(d.rest))

\* a get_or_init that returns what the cell held when it was entered
get_or_init_stale(cell) ==
    CASE cell.state = "complete" -> [enabled |-> TRUE, cell |-> cell, pc |-> "match", re |-> cell.value]
      [] cell.state = "incomplete" ->
             [enabled |-> TRUE, cell |-> Compiled(cell), pc |-> "match", re |-> cell.value]
      [] OTHER -> [enabled |-> FALSE, cell |-> cell, pc |-> "get_or_init", re |-> "none"]

\* a get_or_init that lets a thread run the closure while another runs it
get_or_init_unguarded(cell) ==
    CASE cell.state = "complete" -> [enabled |-> TRUE, cell |-> cell, pc |-> "match", re |-> cell.value]
      [] OTHER ->
             [enabled |-> TRUE, cell |-> [cell EXCEPT !.state = "running"], pc |-> "init",
              re |-> "none"]

\* OnceCell::get_or_init on entry: a complete cell is read; an incomplete one
\* is taken for initialization by this thread; while another thread runs the
\* closure the caller is blocked
get_or_init(cell) ==
    CASE cell.state = "complete" -> [enabled |-> TRUE, cell |-> cell, pc |-> "match", re |-> cell.value]
      [] cell.state = "incomplete" ->
             [enabled |-> TRUE, cell |-> [cell EXCEPT !.state = "running"], pc |-> "init",
              re |-> "none"]
      [] OTHER -> [enabled |-> FALSE, cell |-> cell, pc |-> "get_or_init", re |-> "none"]

\* the single call of Spec is not running
NoCall ==
    /\ fn = "none" /\ hdr = BaseHeader("none") /\ string = << >> /\ input = << >>
    /\ prev = << >> /\ pc = "none" /\ last = "none" /\ fields = NoFields
    /\ nom = [res |-> "Ok", kind |-> "none", rest |-> << >>]
    /\ parsed = << >> /\ out = NoOut

InitThreads ==
    /\ NoCall
    /\ RE = EmptyCell
    /\ threads \in [1..NThreads ->
           UNION {[fn : {f}, string : {Render(h) : h \in ThreadHeaders(f)},
                   pc : {"call"}, re : {"none"}, out : {NoOut}] :
                      f \in {"uniprotkb", "uniprotkb_iso"}}]

\* the call starts: the statements before unique_id; an Err returns at once
ThreadCall(t) ==
    /\ threads[t].pc = "call"
    /\ threads' = [threads EXCEPT ![t] =
           IF BeforeId(threads[t].string).res = "Ok"
           THEN [@ EXCEPT !.pc = "get_or_init"]
           ELSE [@ EXCEPT !.pc = "done", !.out = Returned(BeforeId(threads[t].string))]]
    /\ UNCHANGED <<fn, hdr, string, input, prev, pc, last, fields, nom, parsed, out, RE>>

\* let re = RE.get_or_init(..): entry
ThreadGetOrInit(t) ==
    /\ threads[t].pc = "get_or_init"
    /\ get_or_init(RE).enabled
    /\ RE' = get_or_init(RE).cell
    /\ threads' = [threads EXCEPT ![t].pc = get_or_init(RE).pc,
                                  ![t].re = get_or_init(RE).re]
    /\ UNCHANGED <<fn, hdr, string, input, prev, pc, last, fields, nom, parsed, out>>

\* the closure: Regex::new(..).unwrap(), stored in the cell
ThreadInit(t) ==
    /\ threads[t].pc = "init"
    /\ RE' = Compiled(RE)
    /\ threads' = [threads EXCEPT ![t].pc = "match", ![t].re = AccessionPattern]
    /\ UNCHANGED <<fn, hdr, string, input, prev, pc, last, fields, nom, parsed, out>>

\* re.captures(&input) and the rest of the call; without a pattern there is
\* nothing to match with and the call does not return
ThreadMatch(t) ==
    /\ threads[t].pc = "match"
    /\ threads' = [threads EXCEPT ![t].pc = "done",
           ![t].out = IF threads[t].re # AccessionPattern THEN Returned(Panic(<< >>))
                      ELSE IF threads[t].fn = "uniprotkb" THEN uniprotkb(threads[t].string)
                      ELSE uniprotkb_iso(threads[t].string)]
    /\ UNCHANGED <<fn, hdr, string, input, prev, pc, last, fields, nom, parsed, out, RE>>

NextThreads ==
    \E t \in 1..NThreads :
        \/ ThreadCall(t)
        \/ ThreadGetOrInit(t)
        \/ ThreadInit(t)
        \/ ThreadMatch(t)

SpecThreads == InitThreads /\ [][NextThreads]_vars

(* ------------------------------------------------------------------ *)
(* The header grammars, as predicates on a description                 *)
(* ------------------------------------------------------------------ *)

Finished == pc \in {"done", "aborted"}

\* the input is the whole rendering of the description
Whole == string = Render(hdr)

Last(s) == s[Len(s)]

Front(s) == Take(s, Len(s) - 1)

Contains(s, t) == \E i \in 0..(Len(s) - Len(t)) : SubSeq(s, i + 1, i + Len(t)) = t

AllIn(s, P) == \A i \in 1..Len(s) : s[i] \in P

\* a whole string that has one of the two accession shapes
IsAccession(a) ==
    \/ /\ Len(a) = 6
       /\ a[1] \in {"O", "P", "Q"}
       /\ a[2] \in Digits
       /\ AllIn(SubSeq(a, 3, 5), Upper \cup Digits)
       /\ a[6] \in Digits
    \/ /\ Len(a) \in {6, 10}
       /\ a[1] \in Upper \ {"O", "P", "Q"}
       /\ a[2] \in Digits
       /\ \A g \in 0..((Len(a) - 6) \div 4) :
              /\ a[3 + 4 * g] \in Upper
              /\ a[4 + 4 * g] \in Upper \cup Digits
              /\ a[5 + 4 * g] \in Upper \cup Digits
              /\ a[6 + 4 * g] \in Digits

\* X_Y with 2..12 alphanumerics before the underscore and 2..5 after
IsEntryName(e) ==
    \E i \in 1..Len(e) :
        /\ e[i] = "_"
        /\ i - 1 \in 2..12
        /\ Len(e) - i \in 2..5
        /\ AllIn(Take(e, i - 1), AlphaNumeric)
        /\ AllIn(Drop(e, i), AlphaNumeric)

IsSeparator(s) == Len(s) >= 1 /\ AllIn(s, SpaceOrTab)

DatabaseOf(d) == IF d = <<"s", "p">> THEN "SwissProt" ELSE "TrEMBL"

ExistenceOf(d) ==
    CASE d = <<"1">> -> "ExperimentalEvidenceProtein"
      [] d = <<"2">> -> "ExperimentalEvidenceTranscript"
      [] d = <<"3">> -> "InferredHomology"
      [] d = <<"4">> -> "Predicted"
      [] d = <<"5">> -> "Uncertain"

\* the part of both grammars up to the taxid and the whitespace after it
\*   >{db}|{accession}[-{isoform}]|{entryName} {proteinName} OS={organism} OX={taxid}
\* with free texts that do not contain their closing sentinel and fields
\* separated by one or more spaces or tabs
CommonGrammar(h) ==
    /\ h.db \in {<<"s", "p">>, <<"t", "r">>}
    /\ h.junk = << >>
    /\ IsAccession(h.acc)
    /\ IsEntryName(h.entry)
    /\ ~Contains(h.protein, <<" ", "O", "S", "=">>)
    /\ ~Contains(h.organism, <<" ", "O", "X", "=">>)
    /\ Len(h.taxid) \in 1..7 /\ AllIn(h.taxid, Digits)
    /\ IsSeparator(h.sep1) /\ IsSeparator(h.sep2) /\ IsSeparator(h.sep3)

\* the canonical grammar
\*   ... OX={taxid}[ GN={gene}] PE={1..5} SV={digit}
CanonicalGrammar(h) ==
    /\ CommonGrammar(h)
    /\ h.iso = << >>
    /\ IsSeparator(h.sep4)
    /\ h.gene.has =>
           IsSeparator(h.sep5) /\ ~Contains(h.gene.val, <<" ", "P", "E", "=">>)
    /\ h.pe.has /\ h.pe.val \in {<<"1">>, <<"2">>, <<"3">>, <<"4">>, <<"5">>}
    /\ IsSeparator(h.sep6)
    /\ Len(h.sv) = 1 /\ h.sv[1] \in Digits
    /\ h.trail = << >>

\* what the sentinels of until_os and os_until_ox ask of a header beyond the
\* grammar: a protein name with a byte other than space and tab, and a space
\* right before OS= and before OX=
SentinelsMet(h) ==
    /\ ~AllIn(h.protein, SpaceOrTab)
    /\ Last(h.sep2) = " "
    /\ Last(h.sep3) = " "

\* and of the gene part: a space right before PE=, or a gene name that is a
\* non-empty run of alphanumerics, '-', '_' and '.'
GeneSentinelMet(h) ==
    h.gene.has =>
        \/ Last(h.sep5) = " "
        \/ Len(h.gene.val) >= 1 /\ AllIn(h.gene.val, GeneBytes)

\* the bytes gn returns on such a header
GeneSlice(h) ==
    IF Last(h.sep5) = " " THEN h.gene.val \o Front(h.sep5) ELSE h.gene.val

\* the record the canonical grammar describes; gene is the gene name it holds
CanonicalRecord(h, gene) ==
    [database |-> DatabaseOf(h.db),
     identifier |-> h.acc,
     entry_name |-> h.entry,
     protein_name |-> trim(from_utf8_lossy(h.protein)),
     organism_name |-> trim(from_utf8_lossy(h.organism)),
     organism_identifier |-> h.taxid,
     gene_name |-> gene,
     protein_existence |-> ExistenceOf(h.pe.val),
     sequence_version |-> h.sv]

(* ------------------------------------------------------------------ *)
(* C1                                                                  *)
(* ------------------------------------------------------------------ *)

IsoformGrammar(h) ==
    /\ CommonGrammar(h)
    /\ SentinelsMet(h)
    /\ Len(h.iso) >= 2 /\ h.iso[1] = "-" /\ AllIn(Drop(h.iso, 1), Digits)
    /\ IsSeparator(h.sep4)

\* the input after ">{db}|", where the isoform identifier is looked for
AfterDb == Drop(string, 4)

\* the n bytes of s from position i (empty when s ends before)
SubAt(s, i, n) == IF i + n - 1 <= Len(s) THEN SubSeq(s, i, i + n - 1) ELSE << >>

\* an accession starts at position i of s
AccessionAt(s, i) == \E n \in {6, 10} : IsAccession(SubAt(s, i, n))

\* no substring of s has an accession shape
NoAccessionIn(s) == \A i \in 1..Len(s) : ~AccessionAt(s, i)

ByteAt(s, i) == IF i \in 1..Len(s) THEN s[i] ELSE ""

\* the byte that follows the leftmost accession of s, and the one after that
\* ("" at the end of the input)
AfterLeftmostAccession(s) ==
    LET i == CHOOSE i \in 1..Len(s) :
                 AccessionAt(s, i) /\ \A j \in 1..(i - 1) : ~AccessionAt(s, j)
        n == IF IsAccession(SubAt(s, i, 10)) THEN 10 ELSE 6
    IN  [dash |-> ByteAt(s, i + n), digit |-> ByteAt(s, i + n + 1)]

C3_NoGenePart ==
    (/\ fn = "uniprotkb_iso" /\ Finished /\ Whole
     /\ CommonGrammar(hdr) /\ SentinelsMet(hdr)
     /\ Len(hdr.iso) >= 2 /\ hdr.iso[1] = "-" /\ AllIn(Drop(hdr.iso, 1), Digits)
     /\ hdr.sep4 = << >> /\ ~hdr.gene.has /\ ~hdr.pe.has /\ hdr.trail = << >>) =>
        /\ out.tag = "Ok"
        /\ out.value.gene_name = None

(* ------------------------------------------------------------------ *)
(* C4                                                                  *)
(* ------------------------------------------------------------------ *)

\* C4: for every canonical header in which the whitespace after the taxid is
\* followed directly by PE= (no GN=), uniprotkb does not fail and returns
\* gene_name = None; optional_gene_name on an input that starts with PE=
\* returns (None, None) and consumes nothing.
C4_NoGeneName ==
    /\ (/\ fn = "uniprotkb" /\ Finished /\ Whole
        /\ CanonicalGrammar(hdr) /\ SentinelsMet(hdr) /\ ~hdr.gene.has) =>
           /\ out.tag = "Ok"
           /\ out.value.gene_name = None
    /\ (last = "optional_gene_name" /\ StartsWith(prev, <<"P", "E", "=">>)) =>
           /\ nom.res = "Ok"
           /\ fields.gene = None
           /\ input = prev

\* a canonical header without gene part, with a tab after the taxid, has been
\* parsed
C4_Witness ==
    /\ fn = "uniprotkb" /\ pc = "done" /\ Whole
    /\ CanonicalGrammar(hdr) /\ SentinelsMet(hdr) /\ ~hdr.gene.has
    /\ hdr.sep4 = <<"\t">>
    /\ out.tag = "Ok"
    /\ out.value.gene_name = None

(* ------------------------------------------------------------------ *)
(* C5                                                                  *)
(* ------------------------------------------------------------------ *)

\* C5: for every canonical header with GN=<text> followed by " PE=<n>",
\* uniprotkb returns gene_name = Some(t), t being the bytes between GN= and
\* the first " PE=" with the surrounding whitespace trimmed.
C5_GeneNameTrimmed ==
    (/\ fn = "uniprotkb" /\ Finished /\ Whole
     /\ CanonicalGrammar(hdr) /\ SentinelsMet(hdr)
     /\ hdr.gene.has /\ Last(hdr.sep5) = " ") =>
        /\ out.tag = "Ok"
        /\ out.value.gene_name =
               Some(trim(from_utf8_lossy(hdr.gene.val \o Front(hdr.sep5))))

(* ------------------------------------------------------------------ *)
(* C6                                                                  *)
(* ------------------------------------------------------------------ *)

\* the digits that follow PE= at the start of s
ExistenceDigits(s) == Take(Drop(s, 3), RunLen(Drop(s, 3), Digits))

\* C6: when the digits that follow PE= are not exactly one of 1..5 (PE=0,
\* PE=6, PE=12), the existence step rejects the input: uniprotkb returns a
\* ParsingError and no record.
C6_ExistenceRejected ==
    (/\ fn = "uniprotkb" /\ Finished /\ last = "evidence"
     /\ StartsWith(prev, <<"P", "E", "=">>)
     /\ ExistenceDigits(prev) # << >>
     /\ ExistenceDigits(prev) \notin {<<"1">>, <<"2">>, <<"3">>, <<"4">>, <<"5">>}) =>
        out.tag = "ParsingError"

(* ------------------------------------------------------------------ *)
(* C7                                                                  *)
(* ------------------------------------------------------------------ *)

\* C7: for every input, uniprotkb and uniprotkb_iso return a value, Ok(record)
\* or Err(UniProtHeaderError), and never abort.
C7_AlwaysReturns ==
    /\ pc # "aborted"
    /\ pc = "done" => out.tag \in {"Ok", "ParsingError", "Incomplete"}

(* ------------------------------------------------------------------ *)
(* C8                                                                  *)
(* ------------------------------------------------------------------ *)

\* the input is a header of the canonical grammar cut short: it ends before
\* the version byte
CutShort ==
    /\ CanonicalGrammar(hdr) /\ SentinelsMet(hdr) /\ GeneSentinelMet(hdr)
    /\ Len(string) < Len(Render(hdr))
    /\ string = Take(Render(hdr), Len(string))

\* C8, as stated: when the input ends before a field could be fully matched,
\* the result is the Incomplete failure, not the ParsingError failure.
C8_AsStated ==
    (fn = "uniprotkb" /\ Finished /\ CutShort) => out.tag = "Incomplete"

\* C8, amended: when the input ends before a field could be fully matched,
\* uniprotkb returns the ParsingError failure of the sub-parser that ran out
\* of input, with the input that remained at that step (">sp|P12345|AB_":
\* TakeWhileMN and an empty remainder; a header cut after "SV=": Eof and an
\* empty remainder); neither assembler ever returns Incomplete.
C8_CutShortIsParsingError ==
    /\ out.tag # "Incomplete"
    /\ nom.res # "Incomplete"
    /\ (fn = "uniprotkb" /\ Finished /\ CutShort) =>
           /\ out.tag = "ParsingError"
           /\ out.remaining = from_utf8_lossy(nom.rest)
           /\ IsSuffixOf(nom.rest, string)
           /\ (IsSuffixOf(<<"_">>, string) /\ last = "entry_name") =>
                  out.kind = "TakeWhileMN" /\ out.remaining = << >>
           /\ (last = "version" /\ IsSuffixOf(<<"S", "V", "=">>, string)) =>
                  out.kind = "End of file" /\ out.remaining = << >>

\* a header cut after "SV=" has been rejected at the version step
C8_Witness ==
    /\ fn = "uniprotkb" /\ pc = "done" /\ CutShort
    /\ last = "version"
    /\ IsSuffixOf(<<"S", "V", "=">>, string)
    /\ out.tag = "ParsingError"
    /\ out.kind = "End of file"

(* ------------------------------------------------------------------ *)
(* C9                                                                  *)
(* ------------------------------------------------------------------ *)

\* C9: unique_id returns the leftmost substring of its input that has an
\* accession shape (the longer one when two start there), wherever it starts
\* and whatever follows it, and the remaining input is exactly the bytes after
\* that match; when no substring matches it fails with kind RegexpCapture
\* carrying the whole input.
C9_LeftmostAccession ==
    (fn = "uniprotkb" /\ last = "id") =>
        /\ nom.res \in {"Ok", "Error"}
        /\ nom.res = "Ok" =>
               \E i \in 1..Len(prev) :
                   /\ AccessionAt(prev, i)
                   /\ \A j \in 1..(i - 1) : ~AccessionAt(prev, j)
                   /\ fields.id = SubAt(prev, i, Len(fields.id))
                   /\ IsAccession(fields.id)
                   /\ Len(fields.id) = 6 => ~IsAccession(SubAt(prev, i, 10))
                   /\ input = Drop(prev, i + Len(fields.id) - 1)
        /\ nom.res = "Error" =>
               /\ NoAccessionIn(prev)
               /\ nom.kind = "RegexpCapture"
               /\ nom.rest = prev

\* unique_id has matched an accession that does not start its input and is
\* followed by an entry name that itself holds an accession shape
C9_Witness ==
    /\ fn = "uniprotkb" /\ last = "id" /\ nom.res = "Ok"
    /\ hdr.junk = <<"x">>
    /\ hdr.entry = <<"Q", "3", "S", "A", "2", "3", "_", "9", "H", "I", "V", "1">>
    /\ StartsWith(prev, <<"x", "P", "1", "2", "3", "4", "5", "|">>)
    /\ input = Drop(prev, 7)
    /\ fields.id = <<"P", "1", "2", "3", "4", "5">>

(* ------------------------------------------------------------------ *)
(* C10                                                                 *)
(* ------------------------------------------------------------------ *)

\* the length of the alphanumeric run that starts s, and of the one that
\* follows the byte after it
LeftRun(s) == RunLen(s, AlphaNumeric)

RightRun(s) == RunLen(Drop(s, LeftRun(s) + 1), AlphaNumeric)

\* C10: entry_name succeeds and returns exactly X_Y on an input X_Y (alone or
\* followed by a byte that is not alphanumeric) where X is 2..12 alphanumerics
\* and Y is 2..5 alphanumerics; it fails when X has fewer than 2 bytes, when
\* more than 12 alphanumerics come before the underscore, when the underscore
\* is missing or replaced by another byte, and when Y has fewer than 2 bytes.
C10_EntryName ==
    last = "entry_name" =>
        LET x == LeftRun(prev)
            y == RightRun(prev)
            underscore == ByteAt(prev, x + 1) = "_"
        IN  /\ (x \in 2..12 /\ underscore /\ y \in 2..5) =>
                   /\ nom.res = "Ok"
                   /\ fields.entry = Take(prev, x + 1 + y)
                   /\ input = Drop(prev, x + 1 + y)
            /\ (x < 2 \/ x > 12 \/ ~underscore \/ y < 2) =>
                   /\ nom.res = "Error"
                   /\ input = prev

\* entry_name has returned an entry name whose first part has 12 bytes
C10_Witness ==
    /\ last = "entry_name" /\ nom.res = "Ok"
    /\ LeftRun(prev) = 12
    /\ fields.entry =
           <<"A", "B", "C", "D", "E", "F", "G", "H", "I", "J", "K", "L", "_", "C", "D">>

(* ------------------------------------------------------------------ *)
(* C11                                                                 *)
(* ------------------------------------------------------------------ *)

\* what a call of the entry point f on the argument s returns
Call(f, s) == IF f = "uniprotkb" THEN uniprotkb(s) ELSE uniprotkb_iso(s)

\* p is a complete header for the entry point f, and the byte `next` follows
\* it: uniprotkb parses p through its last byte, the version byte;
\* uniprotkb_iso parses p through a gene name and the whitespace after it, and
\* next is not whitespace
CompleteHeader(f, p, next) ==
    IF f = "uniprotkb"
    THEN parse_uniprotkb(p).res = "Ok" /\ parse_uniprotkb(p).rest = << >>
    ELSE /\ parse_uniprotkb_iso(p).res = "Ok"
         /\ parse_uniprotkb_iso(p).rest = << >>
         /\ parse_uniprotkb_iso(p).val.gene_name.some
         /\ IsSuffixOf(<<" ">>, p) \/ IsSuffixOf(<<"\t">>, p)
         /\ next \notin SpaceOrTab

\* C11: if a prefix of the input is a complete header for the assembler
\* (through the version byte for uniprotkb, through the gene name and the
\* whitespace after it for uniprotkb_iso), the bytes after that prefix do not
\* cause a failure and the call returns the same record as for the prefix
\* alone.
C11_TrailingBytes ==
    (Finished /\ Whole /\ hdr.trail # << >>) =>
        \A n \in 0..(Len(string) - 1) :
            CompleteHeader(fn, Take(string, n), string[n + 1]) =>
                /\ pc = "done"
                /\ out = Call(fn, Take(string, n))

(* ------------------------------------------------------------------ *)
(* C13                                                                 *)
(* ------------------------------------------------------------------ *)

\* the step that follows the step named n
StepAfter(f, n) == Steps(f)[1 + CHOOSE i \in 1..Len(Steps(f)) : Steps(f)[i] = n]

\* the kinds, as ParsingError shows them, of the sub-parsers each step is made of
KindsOf(n) ==
    CASE n \in {"chevron", "db", "pipe1", "pipe2"} -> {"Tag"}
      [] n = "id" -> {"RegexpCapture", "Tag", "TakeWhile1"}
      [] n = "entry_name" -> {"TakeWhileMN", "Tag"}
      [] n \in {"space1", "space2", "space3", "space4", "space5"} -> {"TakeWhile1"}
      [] n = "until_os" -> {"Take until"}
      [] n = "os_until_ox" -> {"Tag", "Take until"}
      [] n = "organism_id" -> {"Tag", "TakeWhileMN"}
      [] n = "evidence" -> {"Tag", "TakeWhile1"}
      [] n = "version" -> {"Tag", "End of file"}
      [] OTHER -> {}

\* the bytes of a string, decoded lossily
Lossy(s) == [i \in 1..Len(s) |-> IF s[i] = "xFF" THEN "uFFFD" ELSE s[i]]

\* C13: the assemblers run their steps in the fixed order and stop at the
\* first step that fails; the returned ParsingError carries the input that
\* remained where that step failed (a suffix of the original input, lossily
\* decoded) and the kind of the failing sub-parser, and no later step runs; a
\* header starting ">xx" fails at the database step with kind Tag and the
\* remainder starting at "xx".
C13_FirstFailure ==
    /\ (last = "none") <=> (pc = "chevron")
    /\ (last # "none" /\ nom.res = "Ok" /\ pc \notin {"return", "done"}) =>
           pc = StepAfter(fn, last)
    /\ nom.res = "Error" =>
           /\ pc \in {"return", "done"}
           /\ input = prev
           /\ IsSuffixOf(nom.rest, prev) /\ IsSuffixOf(prev, string)
           /\ pc = "done" =>
                  /\ out.tag = "ParsingError"
                  /\ out.remaining = Lossy(nom.rest)
                  /\ out.kind \in KindsOf(last)
    /\ out.tag = "ParsingError" => nom.res = "Error"
    /\ (pc = "done" /\ StartsWith(string, <<">", "x", "x">>)) =>
           /\ last = "db"
           /\ out.tag = "ParsingError"
           /\ out.kind = "Tag"
           /\ out.remaining = Lossy(Drop(string, 1))

\* a header starting ">xx" with a byte that is not UTF-8 in it has been
\* rejected at the database step
C13_Witness ==
    /\ pc = "done" /\ last = "db"
    /\ StartsWith(string, <<">", "x", "x">>)
    /\ Contains(string, <<"xFF">>)
    /\ out.tag = "ParsingError"
    /\ Contains(out.remaining, <<"uFFFD">>)

(* ------------------------------------------------------------------ *)
(* C14                                                                 *)
(* ------------------------------------------------------------------ *)

\* the text between the '|' that ends ">{db}|" and the next '|'
BetweenPipes == Take(AfterDb, FindSubstring(AfterDb, <<"|">>))

\* C14, as stated: in every input uniprotkb accepts, the accession begins at
\* the byte right after ">{db}|", so the identifier is exactly the text between
\* that '|' and the next '|'; an input with other bytes between ">{db}|" and
\* the accession is rejected.
C14_AsStated ==
    (fn = "uniprotkb" /\ pc = "done") =>
        /\ out.tag = "Ok" =>
               /\ AccessionAt(AfterDb, 1)
               /\ out.value.identifier = BetweenPipes
        /\ (Whole /\ hdr.junk # << >>) => out.tag = "ParsingError"

\* C14, amended: every input uniprotkb accepts starts with ">sp|" or ">tr|",
\* and its identifier is the leftmost substring after that with an accession
\* shape (the longer shape when both start there), which is followed directly
\* by '|'; bytes between ">{db}|" and that accession are skipped and do not
\* cause a rejection: a canonical header with such bytes is accepted with the
\* accession as its identifier.
C14_LeftmostAfterDb ==
    (fn = "uniprotkb" /\ pc = "done") =>
        /\ out.tag = "Ok" =>
               /\ \/ StartsWith(string, <<">", "s", "p", "|">>)
                  \/ StartsWith(string, <<">", "t", "r", "|">>)
               /\ \E i \in 1..Len(AfterDb) :
                      /\ AccessionAt(AfterDb, i)
                      /\ \A j \in 1..(i - 1) : ~AccessionAt(AfterDb, j)
                      /\ Len(out.value.identifier) \in {6, 10}
                      /\ out.value.identifier = SubAt(AfterDb, i, Len(out.value.identifier))
                      /\ Len(out.value.identifier) = 6 => ~IsAccession(SubAt(AfterDb, i, 10))
                      /\ ByteAt(AfterDb, i + Len(out.value.identifier)) = "|"
        /\ (/\ Whole /\ hdr.junk # << >>
            /\ CanonicalGrammar([hdr EXCEPT !.junk = << >>])
            /\ SentinelsMet(hdr) /\ GeneSentinelMet(hdr)) =>
               /\ out.tag = "Ok"
               /\ out.value.identifier = hdr.acc

\* a header with a byte between ">tr|" and the accession has been accepted
C14_Witness ==
    /\ fn = "uniprotkb" /\ pc = "done" /\ Whole
    /\ hdr.db = <<"t", "r">>
    /\ hdr.junk = <<"!">>
    /\ out.tag = "Ok"
    /\ out.value.identifier = hdr.acc
    /\ ~AccessionAt(AfterDb, 1)

(* ------------------------------------------------------------------ *)
(* C15                                                                 *)
(* ------------------------------------------------------------------ *)

C16_OrganismIdentifier ==
    /\ (pc = "done" /\ out.tag = "Ok") =>
           /\ Len(out.value.organism_identifier) \in 1..7
           /\ AllIn(out.value.organism_identifier, Digits)
    /\ (Finished /\ Whole /\ (hdr.taxid = << >> \/ Len(hdr.taxid) >= 8)) =>
           out.tag = "ParsingError"
    /\ (last = "organism_id" /\ StartsWith(prev, <<"O", "X", "=">>)) =>
           LET n == RunLen(Drop(prev, 3), Digits)
           IN  /\ n = 0 => nom.res = "Error" /\ nom.kind = "TakeWhileMN"
               /\ n >= 1 => /\ nom.res = "Ok"
                            /\ fields.organism_id = Take(Drop(prev, 3), IF n > 7 THEN 7 ELSE n)
    /\ (last = "space4" /\ Len(fields.organism_id) = 7 /\ ByteAt(prev, 1) \in Digits) =>
           nom.res = "Error"

\* a header with a taxid of 7 digits has been parsed by uniprotkb_iso
C16_Witness ==
    /\ fn = "uniprotkb_iso" /\ pc = "done" /\ Whole
    /\ hdr.taxid = <<"1", "2", "3", "4", "5", "6", "7">>
    /\ out.tag = "Ok"
    /\ out.value.organism_identifier = hdr.taxid

(* ------------------------------------------------------------------ *)
(* C18                                                                 *)
(* ------------------------------------------------------------------ *)

\* C18: in both assemblers gene_name is None only when GN= is absent at the
\* gene-name position: whenever the bytes after the whitespace that follows
\* the taxid begin with "GN=", a successful parse returns gene_name = Some(..).
C18_GeneNameSome ==
    (/\ pc = "done" /\ out.tag = "Ok" /\ Whole
     /\ IsSeparator(hdr.sep4) /\ hdr.gene.has) =>
        out.value.gene_name.some

(* ------------------------------------------------------------------ *)
(* C12                                                                 *)
(* ------------------------------------------------------------------ *)

\* C12: uniprotkb and uniprotkb_iso are deterministic: two calls of the same
\* entry point on the same bytes return equal results, the same record or the
\* same failure, whatever calls were made before and whichever call was the
\* one that compiled the accession pattern.
C12_Deterministic ==
    \A t, u \in 1..NThreads :
        (/\ threads[t].pc = "done" /\ threads[u].pc = "done"
         /\ threads[t].fn = threads[u].fn
         /\ threads[t].string = threads[u].string) =>
            /\ threads[t].out = threads[u].out
            /\ threads[t].out.tag \in {"Ok", "ParsingError"}

\* two calls on the same well-formed header have returned its record; one of
\* them compiled the pattern and the other found it compiled
C12_Witness ==
    /\ threads[1].pc = "done" /\ threads[2].pc = "done"
    /\ threads[1].fn = "uniprotkb" /\ threads[2].fn = "uniprotkb"
    /\ threads[1].string = threads[2].string
    /\ threads[1].out.tag = "Ok"
    /\ threads[1].out = threads[2].out
    /\ RE.runs = 1

(* ------------------------------------------------------------------ *)
(* C17                                                                 *)
(* ------------------------------------------------------------------ *)

\* C17: under any interleaving of concurrent calls the compiled accession
\* pattern is initialized at most once and never changes once initialized,
\* and each call returns the result it returns when run alone.
C17_InitializedOnce ==
    /\ [](/\ RE.runs <= 1
          /\ RE.state = "complete" <=> RE.runs = 1
          /\ RE.state = "complete" => RE.value = AccessionPattern
          /\ \A t \in 1..NThreads :
                 threads[t].pc = "done" =>
                     threads[t].out = IF threads[t].fn = "uniprotkb"
                                      THEN uniprotkb(threads[t].string)
                                      ELSE uniprotkb_iso(threads[t].string))
    /\ [][RE.state = "complete" => RE' = RE]_vars

\* calls of the two entry points have both matched with the pattern, which
\* was compiled once, and have returned
C17_Witness ==
    /\ threads[1].pc = "done" /\ threads[2].pc = "done"
    /\ threads[1].re = AccessionPattern /\ threads[2].re = AccessionPattern
    /\ threads[1].fn # threads[2].fn
    /\ RE.state = "complete" /\ RE.runs = 1

====
